---- MODULE Spec2Model ----
(***************************************************************************)
(* Booking / availability / payment / refund workflow of the EMS backend.  *)
(* BookingService  : src/src/booking/booking.module.ts                     *)
(* PaymentService  : src/src/payment/payment.service.ts                    *)
(*                                                                         *)
(* Dates are instants in whole hours since an epoch (a date-only ISO       *)
(* string parses to UTC midnight, a multiple of 24); the server clock runs *)
(* in UTC.  Times of day are "HH:mm" strings, kept as <<HH, mm>>.          *)
(* A document store is a function from the ids of the stored documents to  *)
(* the documents; ids are never reused.                                    *)
(***************************************************************************)
EXTENDS Integers, FiniteSets, Sequences, TLC

VARIABLES
    bookings,     \* bookingModel: id -> Booking document
    payments,     \* paymentModel: id -> Payment document
    nextB,        \* number of booking documents inserted so far
    nextP,        \* number of payment documents inserted so far
    now,          \* the server clock, in hours
    khaltiKey,    \* TRUE iff KHALTI_SECRET_KEY is configured
    emailUp,      \* TRUE iff the mail transport delivers; FALSE: every send throws
    inflight,     \* create requests between their availability read and their insert
    refundIn,     \* arguments of the last stand-alone calculateRefund evaluation
    refundOut,    \* its result
    last          \* the last call: operation, document id, outcome

vars == <<bookings, payments, nextB, nextP, now, khaltiKey, emailUp, inflight, refundIn,
          refundOut, last>>

----------------------------------------------------------------------------
(* Bounds of the model *)

MaxBookings == 2
MaxPayments == 2
MaxProcs == 2
MaxPaid == 20
MaxTicks == 2
MaxRefunds == 2

----------------------------------------------------------------------------
(* Enumerations *)

BookingStatus == {"PENDING", "CONFIRMED", "CANCELLED", "COMPLETED"}
PaymentStatus == {"UNPAID", "PARTIAL", "PAID", "REFUNDED"}
PaymentGateway == {"ESEWA", "KHALTI"}
PaymentType == {"ADVANCE", "FULL", "BALANCE", "REFUND"}
TransactionStatus == {"INITIATED", "PENDING", "COMPLETED", "FAILED", "REFUNDED"}

\* an optional DTO field that is absent
Absent == "absent"

----------------------------------------------------------------------------
(* Venue directory (read-only collaborator) *)

DefaultPolicy ==
    [fullRefundHours |-> 72, partialRefundHours |-> 24,
     partialRefundPercentage |-> 50, noRefundHours |-> 0]

\* a venue document without a cancellationPolicy
NoPolicy ==
    [fullRefundHours |-> -1, partialRefundHours |-> -1,
     partialRefundPercentage |-> -1, noRefundHours |-> -1]

Venues ==
    [v1 |-> [ownerId |-> "owner", isActive |-> TRUE,
             minCapacity |-> 10, maxCapacity |-> 500, pricePerHour |-> 5,
             blockedDates |-> {48},
             cancellationPolicy |-> DefaultPolicy],
     v2 |-> [ownerId |-> "owner", isActive |-> FALSE,
             minCapacity |-> 10, maxCapacity |-> 500, pricePerHour |-> 5,
             blockedDates |-> {},
             cancellationPolicy |-> DefaultPolicy]]

VenueIds == DOMAIN Venues

----------------------------------------------------------------------------
(* Inputs *)

\* identifiers that travel between the service and the gateways
NoTxn == [k |-> "none", p |-> 0]
pidxOf(p) == [k |-> "pidx", p |-> p]        \* response.data.pidx of Khalti's initiation
mockPidx(ref) == [k |-> "mock", p |-> ref]  \* `mock_${payment.referenceId}`
khaltiTxn(p) == [k |-> "txn", p |-> p]      \* transaction_id of Khalti's lookup
esewaCode(p) == [k |-> "code", p |-> p]     \* transaction_code of eSewa's callback

BookingIds == 1..MaxBookings
PaymentIds == 1..MaxPayments

\* the authenticated requester: req.user.userId, req.user.role
Requesters ==
    {[userId |-> "u1", role |-> "USER"],
     [userId |-> "u2", role |-> "USER"],
     [userId |-> "owner", role |-> "OWNER"],
     [userId |-> "admin", role |-> "ADMIN"]}

Times == {<<10, 0>>, <<10, 30>>, <<12, 0>>}
Dates == {24, 48, 72}
GuestCounts == {100, 600}
Amounts == {1, 2, 8, 10}

\* <<startTime, endTime>>: a slot, one that overlaps it, one that touches the
\* second, and one that ends before it starts
Slots ==
    {<<<<10, 0>>, <<12, 0>>>>, <<<<10, 30>>, <<12, 0>>>>,
     <<<<10, 0>>, <<10, 30>>>>, <<<<12, 0>>, <<10, 0>>>>}

\* every slot on every date for a well-formed request to venue v1, and one request
\* each for an unknown venue, an inactive venue and a guest count out of range
CreateBookingDtos ==
    {dto \in [venueId : VenueIds \cup {"v0"}, eventDate : Dates,
              startTime : Times, endTime : Times, guestCount : GuestCounts] :
        /\ <<dto.startTime, dto.endTime>> \in Slots
        /\ \/ dto.venueId = "v1" /\ dto.guestCount = 100
           \/ dto.eventDate = 24 /\ dto.startTime = <<10, 0>> /\ dto.endTime = <<12, 0>>
              /\ (dto.venueId = "v1" \/ dto.guestCount = 100)}

UpdateBookingStatusDtos ==
    [status : BookingStatus \cup {Absent}, paymentStatus : PaymentStatus \cup {Absent}]

\* for booking 1 an amount below and one at each rule's threshold; for any other
\* booking id one request; an omitted paymentType arrives as Absent
InitiatePaymentDtos ==
    {dto \in [bookingId : BookingIds, amount : Amounts, gateway : PaymentGateway,
              paymentType : PaymentType \cup {Absent}] :
        /\ dto.paymentType = "ADVANCE" => dto.amount \in {1, 2}
        /\ dto.paymentType \in {"FULL", "BALANCE"} => dto.amount \in {8, 10}
        /\ dto.paymentType \in {"REFUND", Absent} => dto.amount = 10
        /\ dto.bookingId # 1 =>
               dto.paymentType = "FULL" /\ dto.amount = 10 /\ dto.gateway = "ESEWA"}

EsewaCallbacks ==
    [transaction_uuid : PaymentIds \cup {0}, status : {"COMPLETE", "CANCELED"}]

Pidxs == {pidxOf(p) : p \in PaymentIds} \cup {mockPidx(p) : p \in PaymentIds}
             \cup {khaltiTxn(p) : p \in PaymentIds}

RescheduleBookingDtos ==
    {dto \in [newEventDate : Dates, newStartTime : Times, newEndTime : Times] :
        <<dto.newStartTime, dto.newEndTime>> \in Slots}

----------------------------------------------------------------------------
(* Helpers *)

\* parseInt(t.split(':')[0])
parseHour(t) == t[1]

\* parseInt(t.split(':')[0]) * 60 + parseInt(t.split(':')[1])
toMinutes(t) == t[1] * 60 + t[2]

\* date.toISOString().split('T')[0]: the calendar day of an instant
dateStr(date) == date \div 24

\* setHours(0, 0, 0, 0) and setHours(23, 59, 59, 999), at the resolution of the clock
startOfDay(date) == (date \div 24) * 24
endOfDay(date) == (date \div 24) * 24 + 23

\* Math.round(x / 100) for an integer x: the nearest integer, halves towards +Infinity
roundDiv100(x) == (x + 50) \div 100

\* the record of a call: the operation, the document it addressed (0: none), the outcome
Call(op, id, res) == [op |-> op, id |-> id, res |-> res]

\* a call that throws before it writes anything
Throws(op, id, res) ==
    /\ last' = Call(op, id, res)
    /\ UNCHANGED <<bookings, payments, nextB, nextP>>

\* venueService.findById: the venue, its ownerId populated with the owner's user
\* document (venue.service.ts 153-155)
findById(venueId) == [Venues[venueId] EXCEPT !.ownerId = [_id |-> @]]

\* toString() of a document: the text of its inspection, not its _id
docToString(doc) == "{ _id: " \o doc._id \o " }"

\* emailed without the catch: a failed send reaches the caller
emailedUncaught(res) == IF emailUp THEN res ELSE "InternalError"

\* the outcome of a handler whose result is res once it has tried its emails inside
\* try { ... } catch (error) { console.error(...) }: whatever the transport does, res
emailed(res) == res

----------------------------------------------------------------------------
(* BookingService *)

\* overlaps with ranges that only touch counted as overlapping
overlapsClosed(newStart, newEnd, existingStart, existingEnd) ==
    newStart <= existingEnd /\ newEnd >= existingStart

overlaps(newStart, newEnd, existingStart, existingEnd) ==
    newStart < existingEnd /\ newEnd > existingStart

checkAvailability(venueId, date, startTime, endTime) ==
    LET venue == Venues[venueId]
        isBlocked == \E d \in venue.blockedDates : dateStr(d) = dateStr(date)
        existingBookings ==
            {b \in DOMAIN bookings :
                /\ bookings[b].venueId = venueId
                /\ bookings[b].eventDate >= startOfDay(date)
                /\ bookings[b].eventDate <= endOfDay(date)
                /\ bookings[b].status \in {"PENDING", "CONFIRMED"}}
    IN  /\ ~isBlocked
        /\ \A b \in existingBookings :
              ~overlaps(toMinutes(startTime), toMinutes(endTime),
                        toMinutes(bookings[b].startTime), toMinutes(bookings[b].endTime))

\* totalAmountOf charging the minutes as well
totalAmountOfMinutes(venue, startTime, endTime) ==
    ((toMinutes(endTime) - toMinutes(startTime)) * venue.pricePerHour) \div 60

\* hours * venue.pricePerHour, from the hour components only
totalAmountOf(venue, startTime, endTime) ==
    (parseHour(endTime) - parseHour(startTime)) * venue.pricePerHour

\* the document `new this.bookingModel({...})` builds, schema defaults included
newBooking(dto, userId) ==
    LET totalAmount == totalAmountOf(Venues[dto.venueId], dto.startTime, dto.endTime)
    IN  [userId |-> userId, venueId |-> dto.venueId, eventDate |-> dto.eventDate,
         startTime |-> dto.startTime, endTime |-> dto.endTime,
         totalAmount |-> totalAmount, advancePaid |-> 0, balanceAmount |-> totalAmount,
         status |-> "PENDING", paymentStatus |-> "UNPAID",
         cancelledAt |-> -1, refundAmount |-> 0, refundPercentage |-> 0]

\* createChecks without the upper bound on the guest count
createChecksNoMax(dto) ==
    IF dto.venueId \notin VenueIds THEN "NotFound"
    ELSE IF ~Venues[dto.venueId].isActive THEN "BadRequest"
    ELSE IF dto.guestCount < Venues[dto.venueId].minCapacity THEN "BadRequest"
    ELSE IF ~checkAvailability(dto.venueId, dto.eventDate, dto.startTime, dto.endTime)
         THEN "BadRequest"
    ELSE "ok"

\* the validations of create that precede the insert; "ok" when they all pass
createChecks(dto) ==
    IF dto.venueId \notin VenueIds THEN "NotFound"
    ELSE IF ~Venues[dto.venueId].isActive THEN "BadRequest"
    ELSE IF dto.guestCount < Venues[dto.venueId].minCapacity
            \/ dto.guestCount > Venues[dto.venueId].maxCapacity THEN "BadRequest"
    ELSE IF ~checkAvailability(dto.venueId, dto.eventDate, dto.startTime, dto.endTime)
         THEN "BadRequest"
    ELSE "ok"

\* booking.save() of a new document
insertBooking(doc) ==
    /\ nextB < MaxBookings
    /\ bookings' = bookings @@ ((nextB + 1) :> doc)
    /\ nextB' = nextB + 1
    /\ last' = Call("create", nextB + 1, emailed("ok"))
    /\ UNCHANGED <<payments, nextP>>

Create(dto, userId) ==
    /\ IF createChecks(dto) = "ok"
       THEN insertBooking(newBooking(dto, userId))
       ELSE Throws("create", 0, createChecks(dto))
    /\ UNCHANGED <<now, khaltiKey, emailUp, inflight, refundIn, refundOut>>

\* calculateRefund with the full-refund threshold compared strictly
calculateRefundStrict(hoursUntilEvent, advancePaid, policy) ==
    LET refundPercentage ==
            IF hoursUntilEvent > policy.fullRefundHours THEN 100
            ELSE IF hoursUntilEvent >= policy.partialRefundHours
                 THEN policy.partialRefundPercentage
                 ELSE 0
    IN  [refundAmount |-> roundDiv100(advancePaid * refundPercentage),
         refundPercentage |-> refundPercentage]

calculateRefund(hoursUntilEvent, advancePaid, policy) ==
    LET refundPercentage ==
            IF hoursUntilEvent >= policy.fullRefundHours THEN 100
            ELSE IF hoursUntilEvent >= policy.partialRefundHours
                 THEN policy.partialRefundPercentage
                 ELSE 0
    IN  [refundAmount |-> roundDiv100(advancePaid * refundPercentage),
         refundPercentage |-> refundPercentage]

\* venue.cancellationPolicy || { 72, 24, 50, 0 }
policyOrDefault(policy) == IF policy = NoPolicy THEN DefaultPolicy ELSE policy

\* calculateRefund(booking, venue) at the current clock
bookingRefund(booking) ==
    calculateRefund(booking.eventDate - now, booking.advancePaid,
                    policyOrDefault(Venues[booking.venueId].cancellationPolicy))

\* getRefundEstimate that stores the estimate on the booking, as a cancellation does
GetRefundEstimateSaving(id, userId) ==
    /\ IF id \notin DOMAIN bookings
       THEN Throws("getRefundEstimate", id, "NotFound") /\ UNCHANGED refundOut
       ELSE IF bookings[id].userId # userId
            THEN Throws("getRefundEstimate", id, "Forbidden") /\ UNCHANGED refundOut
       ELSE /\ refundOut' = bookingRefund(bookings[id])
            /\ bookings' = [bookings EXCEPT
                    ![id].refundAmount = bookingRefund(bookings[id]).refundAmount,
                    ![id].refundPercentage = bookingRefund(bookings[id]).refundPercentage]
            /\ last' = Call("getRefundEstimate", id, "ok")
            /\ UNCHANGED <<payments, nextB, nextP>>
    /\ UNCHANGED <<now, khaltiKey, emailUp, inflight, refundIn>>

\* refundOut: the refundAmount and refundPercentage of the answer
GetRefundEstimate(id, userId) ==
    /\ IF id \notin DOMAIN bookings
       THEN Throws("getRefundEstimate", id, "NotFound") /\ UNCHANGED refundOut
       ELSE IF bookings[id].userId # userId
            THEN Throws("getRefundEstimate", id, "Forbidden") /\ UNCHANGED refundOut
       ELSE /\ refundOut' = bookingRefund(bookings[id])
            /\ last' = Call("getRefundEstimate", id, "ok")
            /\ UNCHANGED <<bookings, payments, nextB, nextP>>
    /\ UNCHANGED <<now, khaltiKey, emailUp, inflight, refundIn>>

\* statusUpdated keeping the refund fields the booking had
statusUpdatedStaleRefund(booking, dto) ==
    LET cancelled ==
            IF dto.status = "CANCELLED"
            THEN [booking EXCEPT !.cancelledAt = now]
            ELSE booking
        withStatus ==
            IF dto.status # Absent THEN [cancelled EXCEPT !.status = dto.status]
            ELSE cancelled
    IN  IF dto.paymentStatus # Absent
        THEN [withStatus EXCEPT !.paymentStatus = dto.paymentStatus]
        ELSE withStatus

\* the document updateStatus saves once the authorization checks have passed
statusUpdated(booking, dto) ==
    LET cancelled ==
            IF dto.status = "CANCELLED"
            THEN [booking EXCEPT !.cancelledAt = now,
                                 !.refundAmount = bookingRefund(booking).refundAmount,
                                 !.refundPercentage = bookingRefund(booking).refundPercentage]
            ELSE booking
        withStatus ==
            IF dto.status # Absent THEN [cancelled EXCEPT !.status = dto.status]
            ELSE cancelled
    IN  IF dto.paymentStatus # Absent
        THEN [withStatus EXCEPT !.paymentStatus = dto.paymentStatus]
        ELSE withStatus

\* updateStatus without the rule that a booking's user may only cancel
UpdateStatusAnyByUser(id, dto, r) ==
    /\ IF id \notin DOMAIN bookings THEN Throws("updateStatus", id, "NotFound")
       ELSE LET booking == bookings[id]
                isBookingOwner == booking.userId = r.userId
                isVenueOwner == docToString(findById(booking.venueId).ownerId) = r.userId
                isAdmin == r.role = "ADMIN"
            IN  IF ~isBookingOwner /\ ~isVenueOwner /\ ~isAdmin
                THEN Throws("updateStatus", id, "Forbidden")
                ELSE /\ bookings' = [bookings EXCEPT ![id] = statusUpdated(booking, dto)]
                     /\ last' = Call("updateStatus", id,
                                     IF dto.status \notin {Absent, "PENDING"}
                                     THEN emailed("ok") ELSE "ok")
                     /\ UNCHANGED <<payments, nextB, nextP>>
    /\ UNCHANGED <<now, khaltiKey, emailUp, inflight, refundIn, refundOut>>

UpdateStatus(id, dto, r) ==
    /\ IF id \notin DOMAIN bookings THEN Throws("updateStatus", id, "NotFound")
       ELSE LET booking == bookings[id]
                isBookingOwner == booking.userId = r.userId
                isVenueOwner == docToString(findById(booking.venueId).ownerId) = r.userId
                isAdmin == r.role = "ADMIN"
            IN  IF ~isBookingOwner /\ ~isVenueOwner /\ ~isAdmin
                THEN Throws("updateStatus", id, "Forbidden")
                ELSE IF /\ isBookingOwner /\ ~isVenueOwner /\ ~isAdmin
                        /\ dto.status # Absent /\ dto.status # "CANCELLED"
                THEN Throws("updateStatus", id, "Forbidden")
                ELSE /\ bookings' = [bookings EXCEPT ![id] = statusUpdated(booking, dto)]
                     /\ last' = Call("updateStatus", id,
                                     IF dto.status \notin {Absent, "PENDING"}
                                     THEN emailed("ok") ELSE "ok")
                     /\ UNCHANGED <<payments, nextB, nextP>>
    /\ UNCHANGED <<now, khaltiKey, emailUp, inflight, refundIn, refundOut>>

\* the document reschedule saves once its checks have passed
rescheduled(booking, dto) ==
    LET newTotalAmount ==
            totalAmountOf(Venues[booking.venueId], dto.newStartTime, dto.newEndTime)
    IN  [booking EXCEPT !.eventDate = dto.newEventDate,
                        !.startTime = dto.newStartTime,
                        !.endTime = dto.newEndTime,
                        !.totalAmount = newTotalAmount,
                        !.balanceAmount = newTotalAmount - booking.advancePaid]

\* reschedule without the test of the booking's status
RescheduleAnyStatus(id, dto, userId) ==
    /\ IF id \notin DOMAIN bookings THEN Throws("reschedule", id, "NotFound")
       ELSE LET booking == bookings[id] IN
            IF booking.userId # userId THEN Throws("reschedule", id, "Forbidden")
            ELSE IF ~checkAvailability(booking.venueId, dto.newEventDate,
                                       dto.newStartTime, dto.newEndTime)
                 THEN Throws("reschedule", id, "BadRequest")
            ELSE /\ bookings' = [bookings EXCEPT ![id] = rescheduled(booking, dto)]
                 /\ last' = Call("reschedule", id, emailed("ok"))
                 /\ UNCHANGED <<payments, nextB, nextP>>
    /\ UNCHANGED <<now, khaltiKey, emailUp, inflight, refundIn, refundOut>>

Reschedule(id, dto, userId) ==
    /\ IF id \notin DOMAIN bookings THEN Throws("reschedule", id, "NotFound")
       ELSE LET booking == bookings[id] IN
            IF booking.userId # userId THEN Throws("reschedule", id, "Forbidden")
            ELSE IF booking.status \notin {"PENDING", "CONFIRMED"}
                 THEN Throws("reschedule", id, "BadRequest")
            ELSE IF ~checkAvailability(booking.venueId, dto.newEventDate,
                                       dto.newStartTime, dto.newEndTime)
                 THEN Throws("reschedule", id, "BadRequest")
            ELSE /\ bookings' = [bookings EXCEPT ![id] = rescheduled(booking, dto)]
                 /\ last' = Call("reschedule", id, emailed("ok"))
                 /\ UNCHANGED <<payments, nextB, nextP>>
    /\ UNCHANGED <<now, khaltiKey, emailUp, inflight, refundIn, refundOut>>

\* may this requester delete the booking, and is the booking deletable
deleteChecks(booking, r) ==
    LET isBookingOwner == booking.userId = r.userId
        isVenueOwner == docToString(findById(booking.venueId).ownerId) = r.userId
        isAdmin == r.role = "ADMIN"
    IN  IF ~isBookingOwner /\ ~isVenueOwner /\ ~isAdmin THEN "Forbidden"
        ELSE IF booking.status # "PENDING" THEN "BadRequest"
        ELSE "ok"

DeleteBooking(id, r) ==
    /\ IF id \notin DOMAIN bookings THEN Throws("deleteBooking", id, "NotFound")
       ELSE IF deleteChecks(bookings[id], r) # "ok"
            THEN Throws("deleteBooking", id, deleteChecks(bookings[id], r))
       ELSE /\ bookings' = [b \in DOMAIN bookings \ {id} |-> bookings[b]]
            /\ last' = Call("deleteBooking", id, "ok")
            /\ UNCHANGED <<payments, nextB, nextP>>
    /\ UNCHANGED <<now, khaltiKey, emailUp, inflight, refundIn, refundOut>>

----------------------------------------------------------------------------
(* PaymentService *)

\* amountAccepted with the balance rule comparing against the total
amountAcceptedStaleBalance(paymentType, amount, booking) ==
    /\ ~(paymentType = "ADVANCE" /\ amount * 5 < booking.totalAmount)
    /\ ~(paymentType = "FULL" /\ amount # booking.totalAmount)
    /\ ~(paymentType = "BALANCE" /\ amount # booking.totalAmount)

\* the amount rule of initiatePayment; TRUE when no exception is thrown.
\* dto.amount < booking.totalAmount * 0.2 is written amount * 5 < totalAmount: the
\* totals of this model are -10, 0 and 10, whose product with 0.2 is exact.
amountAccepted(paymentType, amount, booking) ==
    /\ ~(paymentType = "ADVANCE" /\ amount * 5 < booking.totalAmount)
    /\ ~(paymentType = "FULL" /\ amount # booking.totalAmount)
    /\ ~(paymentType = "BALANCE" /\ amount # booking.totalAmount - booking.advancePaid)

\* the document paymentModel.create inserts in initiatePayment
newPayment(id, dto, paymentType, userId) ==
    [bookingId |-> dto.bookingId, userId |-> userId, amount |-> dto.amount,
     gateway |-> dto.gateway, paymentType |-> paymentType, status |-> "INITIATED",
     referenceId |-> id, transactionId |-> NoTxn, originalPaymentId |-> 0]

\* gatewayOk: whether Khalti's initiation endpoint answers (read only for a configured Khalti)
InitiatePayment(dto, userId, gatewayOk) ==
    /\ IF dto.bookingId \notin DOMAIN bookings THEN Throws("initiatePayment", 0, "NotFound")
       ELSE LET booking == bookings[dto.bookingId]
                paymentType == IF dto.paymentType = Absent THEN "FULL" ELSE dto.paymentType
                id == nextP + 1
                payment == newPayment(id, dto, paymentType, userId)
            IN  IF booking.userId # userId THEN Throws("initiatePayment", 0, "BadRequest")
                ELSE IF ~amountAccepted(paymentType, dto.amount, booking)
                     THEN Throws("initiatePayment", 0, "BadRequest")
                ELSE /\ nextP < MaxPayments
                     /\ nextP' = id
                     /\ UNCHANGED <<bookings, nextB>>
                     /\ IF dto.gateway = "KHALTI" /\ khaltiKey /\ gatewayOk
                        THEN /\ payments' = payments @@
                                    (id :> [payment EXCEPT !.transactionId = pidxOf(id)])
                             /\ last' = Call("initiatePayment", id, "ok")
                        ELSE IF dto.gateway = "KHALTI" /\ khaltiKey
                        THEN /\ payments' = payments @@ (id :> payment)
                             /\ last' = Call("initiatePayment", id, "BadRequest")
                        ELSE /\ payments' = payments @@ (id :> payment)
                             /\ last' = Call("initiatePayment", id, "ok")
    /\ UNCHANGED <<now, khaltiKey, emailUp, inflight, refundIn, refundOut>>

\* bookingPaid with a BALANCE payment overwriting advancePaid
bookingPaidOverwrite(booking, payment) ==
    IF payment.paymentType = "ADVANCE"
    THEN [booking EXCEPT !.advancePaid = payment.amount,
                         !.balanceAmount = booking.totalAmount - payment.amount,
                         !.paymentStatus = "PARTIAL"]
    ELSE IF payment.paymentType = "FULL"
    THEN [booking EXCEPT !.advancePaid = payment.amount,
                         !.balanceAmount = 0,
                         !.paymentStatus = "PAID"]
    ELSE IF payment.paymentType = "BALANCE"
    THEN [booking EXCEPT !.advancePaid = payment.amount,
                         !.balanceAmount = 0,
                         !.paymentStatus = "PAID"]
    ELSE booking

\* the booking updateBookingPayment saves for a completed payment
bookingPaid(booking, payment) ==
    IF payment.paymentType = "ADVANCE"
    THEN [booking EXCEPT !.advancePaid = payment.amount,
                         !.balanceAmount = booking.totalAmount - payment.amount,
                         !.paymentStatus = "PARTIAL"]
    ELSE IF payment.paymentType = "FULL"
    THEN [booking EXCEPT !.advancePaid = payment.amount,
                         !.balanceAmount = 0,
                         !.paymentStatus = "PAID"]
    ELSE IF payment.paymentType = "BALANCE"
    THEN [booking EXCEPT !.advancePaid = booking.advancePaid + payment.amount,
                         !.balanceAmount = 0,
                         !.paymentStatus = "PAID"]
    ELSE booking

updateBookingPayment(payment) ==
    IF payment.bookingId \notin DOMAIN bookings
    THEN bookings' = bookings
    ELSE bookings' = [bookings EXCEPT
                         ![payment.bookingId] = bookingPaid(bookings[payment.bookingId], payment)]

\* the branch of a verification that the gateway reports as succeeded
verifyCompleted(id, transactionId) ==
    /\ payments[id].bookingId \in DOMAIN bookings =>
          bookingPaid(bookings[payments[id].bookingId], payments[id]).advancePaid <= MaxPaid
    /\ payments' = [payments EXCEPT ![id].status = "COMPLETED",
                                    ![id].transactionId = transactionId]
    /\ updateBookingPayment(payments[id])
    /\ last' = Call("verifyPayment", id, "ok")
    /\ UNCHANGED <<nextB, nextP>>

\* verifyFailed crediting the booking all the same
verifyFailedCrediting(id) ==
    /\ payments' = [payments EXCEPT ![id].status = "FAILED"]
    /\ updateBookingPayment(payments[id])
    /\ last' = Call("verifyPayment", id, "failed")
    /\ UNCHANGED <<nextB, nextP>>

\* the branch of a verification that the gateway reports as not succeeded
verifyFailed(id) ==
    /\ payments' = [payments EXCEPT ![id].status = "FAILED"]
    /\ last' = Call("verifyPayment", id, "failed")
    /\ UNCHANGED <<bookings, nextB, nextP>>

\* data: the callback; decodes: whether it is base64 of a JSON object
VerifyEsewaPayment(decodes, data) ==
    /\ IF ~decodes THEN Throws("verifyPayment", 0, "BadRequest")
       ELSE LET found == {p \in DOMAIN payments :
                             payments[p].referenceId = data.transaction_uuid}
            IN  IF found = {} THEN Throws("verifyPayment", 0, "BadRequest")
                ELSE LET id == CHOOSE p \in found : TRUE IN
                     IF data.status = "COMPLETE"
                     THEN verifyCompleted(id, esewaCode(id))
                     ELSE verifyFailed(id)
    /\ UNCHANGED <<now, khaltiKey, emailUp, inflight, refundIn, refundOut>>

\* what Khalti's lookup endpoint can answer for a pidx: a status, or an HTTP error
lookupAnswers(pidx) ==
    IF pidx.k = "pidx" THEN {"Completed", "Expired", "error"} ELSE {"error"}

VerifyKhaltiPayment(pidx, answer) ==
    /\ LET byTxn == {p \in DOMAIN payments : payments[p].transactionId = pidx}
           byRef == IF pidx.k = "mock"
                    THEN {p \in DOMAIN payments : payments[p].referenceId = pidx.p}
                    ELSE {}
           found == IF byTxn # {} THEN byTxn ELSE byRef
       IN  IF found = {} THEN Throws("verifyPayment", 0, "NotFound")
           ELSE LET id == CHOOSE p \in found : TRUE IN
                IF ~khaltiKey THEN verifyCompleted(id, pidx)
                ELSE IF answer = "error" THEN Throws("verifyPayment", id, "BadRequest")
                ELSE IF answer = "Completed" THEN verifyCompleted(id, khaltiTxn(id))
                ELSE verifyFailed(id)
    /\ UNCHANGED <<now, khaltiKey, emailUp, inflight, refundIn, refundOut>>

\* the document paymentModel.create inserts in initiateRefund
newRefund(id, originalId, userId) ==
    [bookingId |-> payments[originalId].bookingId, userId |-> userId,
     amount |-> 0 - payments[originalId].amount, gateway |-> payments[originalId].gateway,
     paymentType |-> "REFUND", status |-> "PENDING", referenceId |-> id,
     transactionId |-> NoTxn, originalPaymentId |-> originalId]

refundCount == Cardinality({p \in DOMAIN payments : payments[p].paymentType = "REFUND"})

\* initiateRefund without the test of the original payment's status
InitiateRefundAnyStatus(paymentId, userId) ==
    /\ IF paymentId \notin DOMAIN payments THEN Throws("initiateRefund", 0, "NotFound")
       ELSE /\ refundCount < MaxRefunds
            /\ nextP' = nextP + 1
            /\ payments' = payments @@ (nextP + 1 :> newRefund(nextP + 1, paymentId, userId))
            /\ last' = Call("initiateRefund", nextP + 1, "ok")
            /\ UNCHANGED <<bookings, nextB>>
    /\ UNCHANGED <<now, khaltiKey, emailUp, inflight, refundIn, refundOut>>

InitiateRefund(paymentId, userId) ==
    /\ IF paymentId \notin DOMAIN payments THEN Throws("initiateRefund", 0, "NotFound")
       ELSE IF payments[paymentId].status # "COMPLETED"
       THEN Throws("initiateRefund", 0, "BadRequest")
       ELSE /\ refundCount < MaxRefunds
            /\ nextP' = nextP + 1
            /\ payments' = payments @@ (nextP + 1 :> newRefund(nextP + 1, paymentId, userId))
            /\ last' = Call("initiateRefund", nextP + 1, "ok")
            /\ UNCHANGED <<bookings, nextB>>
    /\ UNCHANGED <<now, khaltiKey, emailUp, inflight, refundIn, refundOut>>

----------------------------------------------------------------------------

NoRefundIn == [hoursUntilEvent |-> 0, advancePaid |-> 0, policy |-> DefaultPolicy]
NoRefundOut == [refundAmount |-> 0, refundPercentage |-> 0]

\* empty stores, as after construction
EmptyStores ==
    /\ bookings = <<>>
    /\ payments = <<>>
    /\ nextB = 0
    /\ nextP = 0
    /\ now = 0
    /\ inflight = <<>>
    /\ refundOut = NoRefundOut
    /\ last = Call("none", 0, "ok")

\* KHALTI_SECRET_KEY is not set: the default of the constructor
Init == EmptyStores /\ khaltiKey = FALSE /\ emailUp = TRUE /\ refundIn = NoRefundIn

\* either configuration of the Khalti adapter
InitPay == EmptyStores /\ khaltiKey \in BOOLEAN /\ emailUp = TRUE /\ refundIn = NoRefundIn

----------------------------------------------------------------------------
(* Spec: the booking engine, calls run one after the other *)

DoCreate == \E dto \in CreateBookingDtos : Create(dto, "u1")
DoUpdateStatus ==
    \E id \in BookingIds, dto \in UpdateBookingStatusDtos, r \in Requesters :
        /\ dto.paymentStatus = Absent
        /\ UpdateStatus(id, dto, r)
DoReschedule ==
    \E id \in BookingIds, dto \in RescheduleBookingDtos, u \in {"u1", "u2"} :
        Reschedule(id, dto, u)
DoDeleteBooking == \E id \in BookingIds, r \in Requesters : DeleteBooking(id, r)

Next ==
    \/ DoCreate
    \/ DoUpdateStatus
    \/ DoReschedule
    \/ DoDeleteBooking

Spec == Init /\ [][Next]_vars

----------------------------------------------------------------------------
(* SpecPay: one booking of venue v1, its reschedules and its payments *)

PayCreateDto ==
    [venueId |-> "v1", eventDate |-> 24, startTime |-> <<10, 0>>,
     endTime |-> <<12, 0>>, guestCount |-> 100]

\* moves to a free day, keeping the slot or shortening it
PayRescheduleDtos ==
    {dto \in RescheduleBookingDtos :
        dto.newEventDate = 72 /\ dto.newStartTime = <<10, 0>>}

PayCreate == nextB = 0 /\ Create(PayCreateDto, "u1")
PayReschedule ==
    \E id \in BookingIds, dto \in PayRescheduleDtos : Reschedule(id, dto, "u1")
\* the Khalti endpoint may refuse; a second user tries to pay in full
DoInitiatePayment ==
    \E dto \in InitiatePaymentDtos, u \in {"u1", "u2"}, gatewayOk \in BOOLEAN :
        /\ ~gatewayOk => dto.gateway = "KHALTI" /\ khaltiKey
        /\ u = "u2" => dto.paymentType = "FULL" /\ dto.amount = 10 /\ gatewayOk
        /\ InitiatePayment(dto, u, gatewayOk)
DoVerifyEsewaPayment ==
    \E decodes \in BOOLEAN, data \in EsewaCallbacks : VerifyEsewaPayment(decodes, data)
DoVerifyKhaltiPayment ==
    \E pidx \in Pidxs : \E answer \in lookupAnswers(pidx) : VerifyKhaltiPayment(pidx, answer)

NextPay ==
    \/ PayCreate
    \/ PayReschedule
    \/ DoInitiatePayment
    \/ DoVerifyEsewaPayment
    \/ DoVerifyKhaltiPayment

SpecPay == InitPay /\ [][NextPay]_vars

----------------------------------------------------------------------------
(* SpecConc: create requests whose availability read and insert interleave *)

Procs == 1..MaxProcs

\* create up to the end of checkAvailability: the request now awaits booking.save()
CreateBegin(p, dto, userId) ==
    /\ p \notin DOMAIN inflight
    /\ IF createChecks(dto) = "ok"
       THEN /\ inflight' = inflight @@ (p :> [dto |-> dto, userId |-> userId])
            /\ UNCHANGED <<bookings, payments, nextB, nextP, last>>
       ELSE /\ Throws("create", 0, createChecks(dto))
            /\ UNCHANGED inflight
    /\ UNCHANGED <<now, khaltiKey, emailUp, refundIn, refundOut>>

\* booking.save() of a request that passed its checks
CreateFinish(p) ==
    /\ p \in DOMAIN inflight
    /\ insertBooking(newBooking(inflight[p].dto, inflight[p].userId))
    /\ inflight' = [q \in DOMAIN inflight \ {p} |-> inflight[q]]
    /\ UNCHANGED <<now, khaltiKey, emailUp, refundIn, refundOut>>

DoCreateBegin == \E p \in Procs, dto \in CreateBookingDtos : CreateBegin(p, dto, "u1")
DoCreateFinish == \E p \in Procs : CreateFinish(p)

NextConc ==
    \/ DoCreateBegin
    \/ DoCreateFinish

SpecConc == Init /\ [][NextConc]_vars

----------------------------------------------------------------------------
(* SpecRefund: calculateRefund applied to arguments drawn from bounded sets *)

RefundHours == {-30, -1, 0, 23, 24, 30, 47, 48, 71, 72, 100}
RefundPaid == {0, 1, 2, 3, 10, 10000}
RefundPolicies ==
    {DefaultPolicy, NoPolicy,
     [fullRefundHours |-> 48, partialRefundHours |-> 24,
      partialRefundPercentage |-> 25, noRefundHours |-> 0],
     [fullRefundHours |-> 24, partialRefundHours |-> 24,
      partialRefundPercentage |-> 33, noRefundHours |-> 0],
     [fullRefundHours |-> 72, partialRefundHours |-> 0,
      partialRefundPercentage |-> 75, noRefundHours |-> 0]}

InitRefund ==
    /\ EmptyStores
    /\ khaltiKey = FALSE
    /\ emailUp = TRUE
    /\ refundIn \in [hoursUntilEvent : RefundHours, advancePaid : RefundPaid,
                     policy : RefundPolicies]

ApplyCalculateRefund ==
    /\ last.op = "none"
    /\ refundOut' = calculateRefund(refundIn.hoursUntilEvent, refundIn.advancePaid,
                                    policyOrDefault(refundIn.policy))
    /\ last' = Call("calculateRefund", 0, "ok")
    /\ UNCHANGED <<bookings, payments, nextB, nextP, now, khaltiKey, emailUp, inflight, refundIn>>

NextRefund == ApplyCalculateRefund

SpecRefund == InitRefund /\ [][NextRefund]_vars

----------------------------------------------------------------------------
(* SpecStatus: one slot of venue v1, booked by a user or by the venue's owner, and *)
(* every status update and delete by every requester                              *)

StatusCreate == \E u \in {"u1", "owner"} : Create(PayCreateDto, u)
StatusUpdate ==
    \E id \in BookingIds, dto \in UpdateBookingStatusDtos, r \in Requesters :
        UpdateStatus(id, dto, r)
StatusDelete == \E id \in BookingIds, r \in Requesters : DeleteBooking(id, r)

NextStatus ==
    \/ StatusCreate
    \/ StatusUpdate
    \/ StatusDelete

SpecStatus == Init /\ [][NextStatus]_vars

----------------------------------------------------------------------------
(* SpecCancel: a booking of one slot, paid through eSewa, confirmed or cancelled *)
(* while the clock advances, and refund estimates                              *)

CancelCreateDtos == {PayCreateDto, [PayCreateDto EXCEPT !.eventDate = 72]}

CancelPaymentDtos ==
    {dto \in InitiatePaymentDtos :
        /\ dto.gateway = "ESEWA"
        /\ \/ dto.paymentType = "ADVANCE" /\ dto.amount = 2
           \/ dto.paymentType = "FULL" /\ dto.amount = 10}

\* a day passes on the server clock
Tick ==
    /\ now < MaxTicks * 24
    /\ now' = now + 24
    /\ last' = Call("tick", 0, "ok")
    /\ UNCHANGED <<bookings, payments, nextB, nextP, khaltiKey, emailUp, inflight,
                   refundIn, refundOut>>

\* one booking, and one payment for it
CancelCreate == nextB = 0 /\ \E dto \in CancelCreateDtos : Create(dto, "u1")
CancelPay == nextP = 0 /\ \E dto \in CancelPaymentDtos : InitiatePayment(dto, "u1", TRUE)
CancelVerify ==
    \E p \in PaymentIds :
        VerifyEsewaPayment(TRUE, [transaction_uuid |-> p, status |-> "COMPLETE"])
CancelUpdate ==
    \E id \in BookingIds, dto \in UpdateBookingStatusDtos :
        \E r \in {q \in Requesters : q.userId \in {"u1", "admin"}} :
            /\ dto.status \in {"CONFIRMED", "CANCELLED"} /\ dto.paymentStatus = Absent
            /\ UpdateStatus(id, dto, r)
DoGetRefundEstimate ==
    \E id \in BookingIds, u \in {"u1", "u2"} : GetRefundEstimate(id, u)

NextCancel ==
    \/ Tick
    \/ CancelCreate
    \/ CancelPay
    \/ CancelVerify
    \/ CancelUpdate
    \/ DoGetRefundEstimate

SpecCancel == Init /\ [][NextCancel]_vars

----------------------------------------------------------------------------
(* SpecMail: create, updateStatus and reschedule with the mail transport up or down *)

InitMail == EmptyStores /\ khaltiKey = FALSE /\ emailUp \in BOOLEAN /\ refundIn = NoRefundIn

MailCreate == Create(PayCreateDto, "u1")
MailUpdate ==
    \E id \in BookingIds, dto \in UpdateBookingStatusDtos, r \in Requesters :
        /\ dto.paymentStatus = Absent
        /\ UpdateStatus(id, dto, r)
MailReschedule ==
    \E id \in BookingIds, dto \in PayRescheduleDtos, u \in {"u1", "u2"} :
        Reschedule(id, dto, u)

NextMail ==
    \/ MailCreate
    \/ MailUpdate
    \/ MailReschedule

SpecMail == InitMail /\ [][NextMail]_vars

----------------------------------------------------------------------------
(* SpecSer: calls on one booking whose findById and save() interleave.  Each call *)
(* holds the document it read; save() writes the paths the call has changed.    *)

\* the ADVANCE payment whose verification reaches updateBookingPayment
SerPayment ==
    newPayment(1, [bookingId |-> 1, amount |-> 2, gateway |-> "ESEWA"], "ADVANCE", "u1")

SerRescheduleDto ==
    [newEventDate |-> 72, newStartTime |-> <<10, 0>>, newEndTime |-> <<10, 30>>]

\* a reschedule and a cancellation by the booking's user, a confirmation by an
\* admin, and the booking-update step of a successful verification
SerCalls ==
    {[op |-> "reschedule", arg |-> SerRescheduleDto],
     [op |-> "updateStatus", arg |-> [status |-> "CANCELLED", paymentStatus |-> Absent]],
     [op |-> "updateStatus", arg |-> [status |-> "CONFIRMED", paymentStatus |-> Absent]],
     [op |-> "updateBookingPayment", arg |-> SerPayment]}

\* the document a call is about to save, from the document it read; avail: the
\* answer checkAvailability gave a reschedule
changedBy(call, loaded, avail) ==
    IF call.op = "reschedule"
    THEN IF loaded.status \in {"PENDING", "CONFIRMED"} /\ avail
         THEN rescheduled(loaded, call.arg) ELSE loaded
    ELSE IF call.op = "updateStatus" THEN statusUpdated(loaded, call.arg)
    ELSE bookingPaid(loaded, call.arg)

\* document.save(): the stored document with the modified paths of the held one set
saved(stored, loaded, changed) ==
    [f \in DOMAIN stored |-> IF changed[f] # loaded[f] THEN changed[f] ELSE stored[f]]

SerCreate == nextB = 0 /\ Create(PayCreateDto, "u1")

\* findById and the checks of a call: the call now holds its copy of the booking
SerBegin(p, call) ==
    /\ p \notin DOMAIN inflight
    /\ 1 \in DOMAIN bookings
    /\ inflight' = inflight @@
          (p :> [call |-> call, loaded |-> bookings[1], done |-> FALSE,
                 avail |-> IF call.op = "reschedule"
                           THEN checkAvailability(bookings[1].venueId,
                                    call.arg.newEventDate, call.arg.newStartTime,
                                    call.arg.newEndTime)
                           ELSE TRUE])
    /\ UNCHANGED <<bookings, payments, nextB, nextP, now, khaltiKey, emailUp,
                   refundIn, refundOut, last>>

\* booking.save() of a call that holds a copy
SerFinish(p) ==
    /\ p \in DOMAIN inflight
    /\ ~inflight[p].done
    /\ LET e == inflight[p] IN
         /\ bookings' = [bookings EXCEPT
                ![1] = saved(bookings[1], e.loaded, changedBy(e.call, e.loaded, e.avail))]
         /\ last' = Call(e.call.op, 1, "ok")
    /\ inflight' = [inflight EXCEPT ![p].done = TRUE]
    /\ UNCHANGED <<payments, nextB, nextP, now, khaltiKey, emailUp, refundIn, refundOut>>

DoSerBegin == \E p \in Procs, call \in SerCalls : SerBegin(p, call)
DoSerFinish == \E p \in Procs : SerFinish(p)

NextSer ==
    \/ SerCreate
    \/ DoSerBegin
    \/ DoSerFinish

SpecSer == Init /\ [][NextSer]_vars

----------------------------------------------------------------------------
(* SpecRefunds: one booking, one payment through eSewa, and refund requests *)

RefundPaymentIds == 1..(MaxRefunds + 1)

RefundsCreate == nextB = 0 /\ Create(PayCreateDto, "u1")
RefundsPay == nextP = 0 /\ \E dto \in CancelPaymentDtos : InitiatePayment(dto, "u1", TRUE)
RefundsVerify ==
    \E id \in RefundPaymentIds, status \in {"COMPLETE", "CANCELED"} :
        VerifyEsewaPayment(TRUE, [transaction_uuid |-> id, status |-> status])
DoInitiateRefund ==
    \E id \in RefundPaymentIds, u \in {"u1", "u2"} : InitiateRefund(id, u)

NextRefunds ==
    \/ RefundsCreate
    \/ RefundsPay
    \/ RefundsVerify
    \/ DoInitiateRefund

SpecRefunds == Init /\ [][NextRefunds]_vars

----------------------------------------------------------------------------
(* SpecDelete: bookings that are paid for through eSewa and deleted *)

DeleteCreate == \E dto \in CancelCreateDtos : Create(dto, "u1")
DeletePay == \E dto \in CancelPaymentDtos, id \in BookingIds :
                 InitiatePayment([dto EXCEPT !.bookingId = id], "u1", TRUE)
DeleteVerify ==
    \E id \in PaymentIds, status \in {"COMPLETE", "CANCELED"} :
        VerifyEsewaPayment(TRUE, [transaction_uuid |-> id, status |-> status])
DeleteDelete ==
    \E id \in BookingIds, r \in Requesters :
        r.userId \in {"u1", "admin"} /\ DeleteBooking(id, r)

NextDelete ==
    \/ DeleteCreate
    \/ DeletePay
    \/ DeleteVerify
    \/ DeleteDelete

SpecDelete == Init /\ [][NextDelete]_vars

----------------------------------------------------------------------------
(* Properties *)

sameVenueAndDay(a, b) ==
    /\ bookings[a].venueId = bookings[b].venueId
    /\ dateStr(bookings[a].eventDate) = dateStr(bookings[b].eventDate)

intervalsOverlap(a, b) ==
    /\ toMinutes(bookings[a].startTime) < toMinutes(bookings[b].endTime)
    /\ toMinutes(bookings[b].startTime) < toMinutes(bookings[a].endTime)

isActive(b) == bookings[b].status \in {"PENDING", "CONFIRMED"}

\* C1: under sequential create / reschedule / updateStatus / deleteBooking calls, no
\* two distinct PENDING-or-CONFIRMED bookings of one venue on one calendar day have
\* overlapping [startTime, endTime) intervals.
NoDoubleBooking ==
    \A a, b \in DOMAIN bookings :
        (a # b /\ sameVenueAndDay(a, b) /\ isActive(a) /\ isActive(b))
            => ~intervalsOverlap(a, b)

\* C2: of concurrent create requests for overlapping ranges of one venue and day, at
\* most one persists a booking, whatever the interleaving of their availability
\* reads and their inserts.
ConcurrentCreatesExclusive ==
    \A a, b \in DOMAIN bookings :
        (a # b /\ sameVenueAndDay(a, b)) => ~intervalsOverlap(a, b)

\* C3: a verification that reports success for a payment that is already COMPLETED,
\* with the same callback as before, leaves every booking as it was.
VerifyIdempotent ==
    [][(/\ last'.op = "verifyPayment" /\ last'.res = "ok"
        /\ payments[last'.id].status = "COMPLETED"
        /\ payments' = payments)
       => bookings' = bookings]_vars

\* C4: once a booking is CANCELLED or COMPLETED, no call changes its status, removes
\* it, re-stamps cancelledAt or recomputes refundAmount.
TerminalStatusFinal ==
    [][\A b \in DOMAIN bookings :
          bookings[b].status \in {"CANCELLED", "COMPLETED"}
          => /\ b \in DOMAIN bookings'
             /\ bookings'[b].status = bookings[b].status
             /\ bookings'[b].cancelledAt = bookings[b].cancelledAt
             /\ bookings'[b].refundAmount = bookings[b].refundAmount]_vars

\* C5: every booking has balanceAmount = totalAmount - advancePaid and
\* balanceAmount >= 0, after any create / initiatePayment / verifyPayment / reschedule.
BalanceConsistent ==
    \A b \in DOMAIN bookings :
        /\ bookings[b].balanceAmount = bookings[b].totalAmount - bookings[b].advancePaid
        /\ bookings[b].balanceAmount >= 0

\* C6: a payment that a verification has set to COMPLETED or FAILED keeps that status
\* through every later call.
PaymentSettledOnce ==
    [][\A p \in DOMAIN payments :
          payments[p].status \in {"COMPLETED", "FAILED"}
          => payments'[p].status = payments[p].status]_vars

\* C7: the verification that first completes a payment updates its booking by the
\* payment type: ADVANCE sets advancePaid = amount, balanceAmount = totalAmount -
\* amount, PARTIAL; FULL sets advancePaid = amount, balanceAmount = 0, PAID; BALANCE
\* adds amount to advancePaid, sets balanceAmount = 0, PAID.
FirstVerificationUpdatesBooking ==
    [][\A p \in DOMAIN payments :
          (/\ payments[p].status # "COMPLETED"
           /\ payments'[p].status = "COMPLETED"
           /\ payments[p].bookingId \in DOMAIN bookings)
          => LET pay == payments[p]
                 old == bookings[pay.bookingId]
                 new == bookings'[pay.bookingId]
             IN  /\ last'.op = "verifyPayment" /\ last'.res = "ok" /\ last'.id = p
                 /\ pay.paymentType = "ADVANCE" =>
                        /\ new.advancePaid = pay.amount
                        /\ new.balanceAmount = old.totalAmount - pay.amount
                        /\ new.paymentStatus = "PARTIAL"
                 /\ pay.paymentType = "FULL" =>
                        /\ new.advancePaid = pay.amount
                        /\ new.balanceAmount = 0
                        /\ new.paymentStatus = "PAID"
                 /\ pay.paymentType = "BALANCE" =>
                        /\ new.advancePaid = old.advancePaid + pay.amount
                        /\ new.balanceAmount = 0
                        /\ new.paymentStatus = "PAID"]_vars

\* a FULL payment initiated and then verified: the booking is PAID with no balance
FullPaymentVerified ==
    /\ last.op = "verifyPayment" /\ last.res = "ok"
    /\ last.id \in DOMAIN payments
    /\ payments[last.id].paymentType = "FULL"
    /\ payments[last.id].status = "COMPLETED"
    /\ payments[last.id].bookingId \in DOMAIN bookings
    /\ bookings[payments[last.id].bookingId].paymentStatus = "PAID"
    /\ bookings[payments[last.id].bookingId].balanceAmount = 0

\* the amount rule in the words of the contract
amountRule(paymentType, amount, booking) ==
    /\ paymentType = "ADVANCE" => 5 * amount >= booking.totalAmount
    /\ paymentType = "FULL" => amount = booking.totalAmount
    /\ paymentType = "BALANCE" => amount = booking.totalAmount - booking.advancePaid

\* C8: initiatePayment inserts a payment only for an existing booking, requested by
\* the booking's user, with an amount that meets the rule of its type; the payment
\* is INITIATED; a call that inserts nothing fails, and a call that returns normally
\* has inserted one.
InitiateValidated ==
    [][last'.op = "initiatePayment"
       => \/ /\ payments' = payments
             /\ last'.res \in {"NotFound", "BadRequest"}
          \/ /\ DOMAIN payments' = DOMAIN payments \cup {last'.id}
             /\ last'.id \notin DOMAIN payments
             /\ \A p \in DOMAIN payments : payments'[p] = payments[p]
             /\ LET pay == payments'[last'.id] IN
                  /\ pay.status = "INITIATED"
                  /\ pay.bookingId \in DOMAIN bookings
                  /\ pay.userId = bookings[pay.bookingId].userId
                  /\ amountRule(pay.paymentType, pay.amount, bookings[pay.bookingId])]_vars

\* a BALANCE payment accepted against a booking with an advance paid
BalanceInitiated ==
    /\ last.op = "initiatePayment" /\ last.res = "ok"
    /\ last.id \in DOMAIN payments
    /\ payments[last.id].paymentType = "BALANCE"
    /\ payments[last.id].status = "INITIATED"
    /\ payments[last.id].bookingId \in DOMAIN bookings
    /\ bookings[payments[last.id].bookingId].advancePaid > 0

\* C9: calculateRefund yields 100% when hoursUntilEvent >= fullRefundHours, the
\* partial percentage when partialRefundHours <= hoursUntilEvent < fullRefundHours,
\* 0% below partialRefundHours, and refundAmount is advancePaid * percentage / 100
\* rounded to the nearest whole unit (policies with full >= partial >= 0).
RefundMatchesReference ==
    last.op = "calculateRefund" =>
        LET h == refundIn.hoursUntilEvent
            policy == IF refundIn.policy = NoPolicy THEN DefaultPolicy ELSE refundIn.policy
            x == refundIn.advancePaid * refundOut.refundPercentage
        IN  /\ h >= policy.fullRefundHours => refundOut.refundPercentage = 100
            /\ (policy.partialRefundHours <= h /\ h < policy.fullRefundHours)
                   => refundOut.refundPercentage = policy.partialRefundPercentage
            /\ h < policy.partialRefundHours => refundOut.refundPercentage = 0
            /\ 100 * refundOut.refundAmount - 50 <= x
            /\ x < 100 * refundOut.refundAmount + 50
            /\ (h = 30 /\ refundIn.advancePaid = 10000 /\ policy = DefaultPolicy)
                   => refundOut = [refundAmount |-> 5000, refundPercentage |-> 50]

\* the scenario {72, 24, 50%}, 30 hours ahead, 10000 paid has been computed
RefundScenarioComputed ==
    /\ last.op = "calculateRefund"
    /\ refundIn = [hoursUntilEvent |-> 30, advancePaid |-> 10000, policy |-> DefaultPolicy]
    /\ refundOut.refundAmount = 5000

\* the actors the contract authorizes: the booking's user, the venue's owner, an admin
authorized(booking, r) ==
    \/ r.userId = booking.userId
    \/ r.userId = Venues[booking.venueId].ownerId
    \/ r.role = "ADMIN"

CancelDto == [status |-> "CANCELLED", paymentStatus |-> Absent]

\* C10: deleteBooking on a booking that is not PENDING fails and leaves the store
\* unchanged, with InvalidState (BadRequest) for every authorized actor; a booking
\* leaves the store only by a deleteBooking of a PENDING booking; cancelling a
\* CONFIRMED booking through updateStatus succeeds for every authorized actor.
DeleteOnlyPending ==
    [][/\ (/\ last'.op = "deleteBooking"
           /\ last'.id \in DOMAIN bookings
           /\ bookings[last'.id].status # "PENDING")
          => /\ bookings' = bookings
             /\ last'.res \in {"Forbidden", "BadRequest"}
             /\ \A r \in Requesters :
                   (DeleteBooking(last'.id, r) /\ authorized(bookings[last'.id], r))
                       => last'.res = "BadRequest"
       /\ \A b \in DOMAIN bookings \ DOMAIN bookings' :
             /\ last' = Call("deleteBooking", b, "ok")
             /\ bookings[b].status = "PENDING"
       /\ (/\ last'.op = "updateStatus"
           /\ last'.id \in DOMAIN bookings
           /\ bookings[last'.id].status = "CONFIRMED")
          => \A r \in Requesters :
                (UpdateStatus(last'.id, CancelDto, r) /\ authorized(bookings[last'.id], r))
                    => /\ last'.res = "ok"
                       /\ bookings'[last'.id].status = "CANCELLED"]_vars

\* a deleteBooking of a CONFIRMED booking has just been refused
ConfirmedDeleteRefused ==
    /\ last.op = "deleteBooking" /\ last.res = "BadRequest"
    /\ last.id \in DOMAIN bookings
    /\ bookings[last.id].status = "CONFIRMED"

\* candidate ranges of an availability query: every pair of these times of day
QueryTimes == Times \cup {<<14, 0>>}

\* C11: checkAvailability is FALSE exactly when the calendar day of the date is one of
\* the venue's blockedDates, or some PENDING or CONFIRMED booking of the venue on that
\* day has candidateStart < existingEnd and candidateEnd > existingStart, in minutes
\* since midnight.
AvailabilityIffFree ==
    \A d \in Dates, s \in QueryTimes, e \in QueryTimes :
        checkAvailability("v1", d, s, e)
            <=> ~(\/ \E x \in Venues["v1"].blockedDates : x \div 24 = d \div 24
                  \/ \E b \in DOMAIN bookings :
                        /\ bookings[b].venueId = "v1"
                        /\ bookings[b].eventDate \div 24 = d \div 24
                        /\ bookings[b].status \in {"PENDING", "CONFIRMED"}
                        /\ s[1] * 60 + s[2] < bookings[b].endTime[1] * 60 + bookings[b].endTime[2]
                        /\ e[1] * 60 + e[2] > bookings[b].startTime[1] * 60 + bookings[b].startTime[2])

\* day 24 holds an active 10:00-12:00 booking and a cancelled one: the touching range
\* 12:00-14:00 is free, an overlapping one is not, and the blocked day is never free
TouchingRangeAvailable ==
    /\ \E b \in DOMAIN bookings :
          /\ bookings[b].eventDate = 24 /\ bookings[b].status \in {"PENDING", "CONFIRMED"}
          /\ bookings[b].startTime = <<10, 0>> /\ bookings[b].endTime = <<12, 0>>
    /\ \E b \in DOMAIN bookings :
          bookings[b].eventDate = 24 /\ bookings[b].status = "CANCELLED"
    /\ checkAvailability("v1", 24, <<12, 0>>, <<14, 0>>)
    /\ ~checkAvailability("v1", 24, <<10, 30>>, <<12, 0>>)
    /\ ~checkAvailability("v1", 48, <<12, 0>>, <<14, 0>>)

\* C12: an updateStatus call by a requester who is not the booking's user, the venue's
\* owner or an admin fails Forbidden and leaves the booking unchanged; so does a call
\* by the booking's user, when neither venue owner nor admin, that requests a status
\* other than CANCELLED; a call that succeeds was made by one of the three.
UpdateStatusAuthorized ==
    \A id \in DOMAIN bookings, r \in Requesters, dto \in UpdateBookingStatusDtos :
        LET booking == bookings[id]
            isUser == r.userId = booking.userId
            isOwner == r.userId = Venues[booking.venueId].ownerId
            isAdmin == r.role = "ADMIN"
            refused == \/ ~isUser /\ ~isOwner /\ ~isAdmin
                       \/ /\ isUser /\ ~isOwner /\ ~isAdmin
                          /\ dto.status \notin {Absent, "CANCELLED"}
        IN  refused =>
                ~ENABLED (/\ UpdateStatus(id, dto, r)
                          /\ ~(last'.res = "Forbidden" /\ bookings' = bookings))

\* an updateStatus on a stored booking has just been refused as Forbidden
UpdateStatusRefused ==
    /\ last.op = "updateStatus" /\ last.res = "Forbidden"
    /\ last.id \in DOMAIN bookings
    /\ bookings[last.id].status = "PENDING"

\* C13: a create whose venue does not exist or is inactive, whose guestCount is
\* outside [minCapacity, maxCapacity], or whose slot the availability check refuses,
\* returns an error and leaves the stored bookings as they were; a create that
\* persists a booking meets all of these conditions.
CreateValidated ==
    \A dto \in CreateBookingDtos :
        LET accepted ==
                /\ dto.venueId \in VenueIds
                /\ Venues[dto.venueId].isActive
                /\ Venues[dto.venueId].minCapacity <= dto.guestCount
                /\ dto.guestCount <= Venues[dto.venueId].maxCapacity
                /\ checkAvailability(dto.venueId, dto.eventDate, dto.startTime, dto.endTime)
        IN  ~accepted =>
                ~ENABLED (/\ Create(dto, "u1")
                          /\ ~(/\ last'.res \in {"NotFound", "BadRequest"}
                               /\ bookings' = bookings))

\* a create has just been refused although no booking is stored: the venue, the guest
\* count (600 against a capacity of 500) or a blocked date was the reason
CreateRefusedOnEmptyStore ==
    /\ last = Call("create", 0, "BadRequest")
    /\ bookings = <<>>
    /\ Venues["v1"].maxCapacity = 500
    /\ \E dto \in CreateBookingDtos : dto.venueId = "v1" /\ dto.guestCount = 600

\* the refund of the contract for a booking at the current time: 100% from
\* fullRefundHours before the event, the partial percentage from partialRefundHours,
\* nothing later; the amount is the percentage of advancePaid, rounded
refundDue(booking) ==
    LET configured == Venues[booking.venueId].cancellationPolicy
        policy == IF configured = NoPolicy THEN DefaultPolicy ELSE configured
        h == booking.eventDate - now
        pct == IF h >= policy.fullRefundHours THEN 100
               ELSE IF h >= policy.partialRefundHours THEN policy.partialRefundPercentage
               ELSE 0
    IN  [refundAmount |-> (booking.advancePaid * pct + 50) \div 100,
         refundPercentage |-> pct]

\* C14: a getRefundEstimate call, answered or refused, leaves every booking and every
\* payment as it was, and its answer is determined by the booking's event date, the
\* current time, advancePaid and the venue's cancellation policy alone.
RefundEstimatePure ==
    [][last'.op = "getRefundEstimate"
       => /\ bookings' = bookings
          /\ payments' = payments
          /\ (last'.res = "ok" => refundOut' = refundDue(bookings[last'.id]))
          /\ (last'.res # "ok" => refundOut' = refundOut)]_vars

\* an estimate has been answered for a booking with money paid and a refund due
RefundEstimated ==
    /\ last.op = "getRefundEstimate" /\ last.res = "ok"
    /\ last.id \in DOMAIN bookings
    /\ bookings[last.id].advancePaid > 0
    /\ refundOut.refundAmount > 0
    /\ bookings[last.id].refundAmount = 0

\* C15: whether the mail transport delivers or throws, a create, updateStatus or
\* reschedule either returns its saved booking, or fails one of its own checks and
\* has written nothing: no call fails after it has persisted its change.
EmailFailureHarmless ==
    [][last'.op \in {"create", "updateStatus", "reschedule"}
       => \/ last'.res = "ok"
          \/ /\ last'.res \in {"NotFound", "Forbidden", "BadRequest"}
             /\ bookings' = bookings]_vars

\* with the transport down, a booking has been created, confirmed or cancelled, and
\* its reschedule has just returned the saved booking
RescheduledWithMailDown ==
    /\ ~emailUp
    /\ last.op = "reschedule" /\ last.res = "ok"
    /\ last.id \in DOMAIN bookings
    /\ bookings[last.id].eventDate = 72
    /\ bookings[last.id].status = "CONFIRMED"

\* C16: a reschedule by the booking's user of a PENDING or CONFIRMED booking to a
\* range on its own day that is not blocked and overlaps no other active booking
\* succeeds, although the range overlaps the booking's own current slot.
RescheduleExcludesSelf ==
    \A id \in DOMAIN bookings, dto \in RescheduleBookingDtos :
        LET booking == bookings[id]
            newStart == dto.newStartTime[1] * 60 + dto.newStartTime[2]
            newEnd == dto.newEndTime[1] * 60 + dto.newEndTime[2]
            clash(b) ==
                /\ bookings[b].venueId = booking.venueId
                /\ bookings[b].eventDate \div 24 = dto.newEventDate \div 24
                /\ bookings[b].status \in {"PENDING", "CONFIRMED"}
                /\ newStart < bookings[b].endTime[1] * 60 + bookings[b].endTime[2]
                /\ newEnd > bookings[b].startTime[1] * 60 + bookings[b].startTime[2]
        IN  (/\ booking.status \in {"PENDING", "CONFIRMED"}
             /\ dto.newEventDate \div 24 = booking.eventDate \div 24
             /\ \A x \in Venues[booking.venueId].blockedDates :
                    x \div 24 # dto.newEventDate \div 24
             /\ clash(id)
             /\ \A b \in DOMAIN bookings \ {id} : ~clash(b))
            => ~ENABLED (Reschedule(id, dto, booking.userId) /\ last'.res # "ok")

\* the booking after one call has run alone on booking b, the only stored booking
ranAlone(call, b) ==
    LET free == /\ \A x \in Venues[b.venueId].blockedDates :
                      x \div 24 # call.arg.newEventDate \div 24
                /\ ~(/\ b.eventDate \div 24 = call.arg.newEventDate \div 24
                     /\ b.status \in {"PENDING", "CONFIRMED"}
                     /\ toMinutes(call.arg.newStartTime) < toMinutes(b.endTime)
                     /\ toMinutes(call.arg.newEndTime) > toMinutes(b.startTime))
    IN  changedBy(call, b, IF call.op = "reschedule" THEN free ELSE TRUE)

\* the bookings that running the calls of the processes in S one after the other, in
\* any order, can leave
RECURSIVE SerialResults(_, _)
SerialResults(S, b) ==
    IF S = {} THEN {b}
    ELSE UNION {SerialResults(S \ {p}, ranAlone(inflight[p].call, b)) : p \in S}

\* C17: once concurrent calls on one booking have all completed, the booking is one
\* that running the same calls in some serial order leaves: no update is lost or
\* computed from a stale read.
BookingCallsSerializable ==
    (DOMAIN inflight = Procs /\ \A p \in Procs : inflight[p].done)
        => bookings[1] \in SerialResults(Procs, newBooking(PayCreateDto, "u1"))

\* C18: a Khalti initiation that the gateway refused leaves its payment INITIATED, and
\* a later Khalti verification naming the stored referenceId can locate that payment
\* and settle it (COMPLETED or FAILED).
FailedInitiationRecoverable ==
    /\ (last.op = "initiatePayment" /\ last.res = "BadRequest" /\ last.id # 0)
          => payments[last.id].status = "INITIATED"
    /\ \A id \in DOMAIN payments :
          (/\ payments[id].gateway = "KHALTI" /\ khaltiKey
           /\ payments[id].status = "INITIATED"
           /\ payments[id].transactionId = NoTxn)
            => ENABLED (\E answer \in lookupAnswers(mockPidx(payments[id].referenceId)) :
                          /\ VerifyKhaltiPayment(mockPidx(payments[id].referenceId), answer)
                          /\ payments'[id].status \in {"COMPLETED", "FAILED"})

\* C19: an updateStatus call that succeeds with status CANCELLED on a PENDING or
\* CONFIRMED booking leaves it CANCELLED, with cancelledAt the time of the call and
\* refundPercentage and refundAmount the refund due on its advancePaid at that time
\* under the venue's policy.
CancellationRecordsRefund ==
    [][\A id \in DOMAIN bookings :
          (/\ last'.op = "updateStatus" /\ last'.res = "ok" /\ last'.id = id
           /\ bookings[id].status \in {"PENDING", "CONFIRMED"}
           /\ bookings'[id].status = "CANCELLED")
            => /\ bookings'[id].cancelledAt = now
               /\ bookings'[id].refundPercentage = refundDue(bookings[id]).refundPercentage
               /\ bookings'[id].refundAmount = refundDue(bookings[id]).refundAmount
               /\ bookings'[id].advancePaid = bookings[id].advancePaid]_vars

\* a paid booking has been cancelled a day after it was made, with money to return
CancelledWithRefund ==
    \E id \in DOMAIN bookings :
        /\ last = Call("updateStatus", id, "ok")
        /\ bookings[id].status = "CANCELLED"
        /\ bookings[id].cancelledAt = now /\ now > 0
        /\ bookings[id].advancePaid > 0
        /\ bookings[id].refundAmount > 0
        /\ bookings[id].refundPercentage \in 1..99

\* C20: a verification that does not succeed never touches a booking: when the gateway
\* reports a status other than success the payment becomes FAILED and every booking
\* stays as it was, and when the verification call itself fails the caller gets an
\* error and every payment and every booking stays as it was.
FailedVerificationLeavesBooking ==
    [][/\ (last'.op = "verifyPayment" /\ last'.res = "failed")
            => /\ payments'[last'.id].status = "FAILED"
               /\ bookings' = bookings
       /\ (last'.op = "verifyPayment" /\ last'.res \in {"BadRequest", "NotFound"})
            => /\ payments' = payments
               /\ bookings' = bookings]_vars

\* a gateway has reported an initiated payment as not succeeded; its booking is unpaid
VerificationFailedBookingUnpaid ==
    /\ last.op = "verifyPayment" /\ last.res = "failed"
    /\ payments[last.id].status = "FAILED"
    /\ payments[last.id].bookingId \in DOMAIN bookings
    /\ bookings[payments[last.id].bookingId].paymentStatus = "UNPAID"
    /\ bookings[payments[last.id].bookingId].advancePaid = 0

\* C21: initiateRefund creates no record unless the payment it names exists and is
\* COMPLETED; when it succeeds it adds exactly one payment, of type REFUND and status
\* PENDING, with the negated amount of the original, a referenceId no stored payment
\* has, and originalPaymentId naming the original; every stored payment and every
\* booking stays as it was.
RefundRequestRecorded ==
    [][last'.op = "initiateRefund" =>
          /\ bookings' = bookings
          /\ \A p \in DOMAIN payments : payments'[p] = payments[p]
          /\ IF last'.res = "ok"
             THEN LET new == payments'[last'.id] IN
                  /\ DOMAIN payments' = DOMAIN payments \cup {last'.id}
                  /\ last'.id \notin DOMAIN payments
                  /\ new.originalPaymentId \in DOMAIN payments
                  /\ payments[new.originalPaymentId].status = "COMPLETED"
                  /\ new.amount = 0 - payments[new.originalPaymentId].amount
                  /\ new.paymentType = "REFUND"
                  /\ new.status = "PENDING"
                  /\ \A p \in DOMAIN payments : payments[p].referenceId # new.referenceId
             ELSE payments' = payments]_vars

\* a refund of a verified payment has been requested
RefundRequested ==
    /\ last.op = "initiateRefund" /\ last.res = "ok"
    /\ payments[last.id].amount < 0
    /\ payments[payments[last.id].originalPaymentId].status = "COMPLETED"
    /\ payments[payments[last.id].originalPaymentId].paymentType # "REFUND"

\* C27: each COMPLETED payment is named as originalPaymentId by at most one REFUND
\* record, so what is refunded against a payment never exceeds its amount.
RefundedAtMostOnce ==
    \A o \in DOMAIN payments :
        payments[o].status = "COMPLETED" =>
            Cardinality({p \in DOMAIN payments :
                            /\ payments[p].paymentType = "REFUND"
                            /\ payments[p].originalPaymentId = o}) <= 1

\* C22: every stored booking ends strictly later than it starts: no create and no
\* reschedule persists a slot whose end time is equal to or earlier than its start.
EndAfterStart ==
    \A b \in DOMAIN bookings :
        toMinutes(bookings[b].endTime) > toMinutes(bookings[b].startTime)

\* C23: a successful create adds exactly one booking, PENDING and UNPAID with
\* advancePaid 0, whose totalAmount is (hour of endTime - hour of startTime) times the
\* venue's pricePerHour, minutes ignored (10:00-18:00 at 5000 gives 40000), and whose
\* balanceAmount is that total; every other booking stays as it was.
CreatePersistsPending ==
    [][(last'.op = "create" /\ last'.res = "ok") =>
          LET new == bookings'[last'.id] IN
          /\ last'.id \notin DOMAIN bookings
          /\ DOMAIN bookings' = DOMAIN bookings \cup {last'.id}
          /\ \A b \in DOMAIN bookings : bookings'[b] = bookings[b]
          /\ new.status = "PENDING"
          /\ new.paymentStatus = "UNPAID"
          /\ new.advancePaid = 0
          /\ new.totalAmount =
                (new.endTime[1] - new.startTime[1]) * Venues[new.venueId].pricePerHour
          /\ new.balanceAmount = new.totalAmount
          /\ totalAmountOf([pricePerHour |-> 5000], <<10, 0>>, <<18, 0>>) = 40000]_vars

\* a second booking has been created from 10:30 to 12:00 and is charged two hours
HalfHourIgnoredOnCreate ==
    /\ last.op = "create" /\ last.res = "ok" /\ last.id = 2
    /\ bookings[2].startTime = <<10, 30>> /\ bookings[2].endTime = <<12, 0>>
    /\ bookings[2].totalAmount = 2 * Venues[bookings[2].venueId].pricePerHour
    /\ bookings[2].status = "PENDING" /\ bookings[2].paymentStatus = "UNPAID"

\* C24: a reschedule call changes the booking only when the requester is the booking's
\* user, the booking is PENDING or CONFIRMED and the new slot passes the availability
\* check; any other call is refused and leaves every booking as it was.  A call that
\* succeeds leaves status, paymentStatus and advancePaid, and every other booking, as
\* they were.
RescheduleGuarded ==
    \A id \in DOMAIN bookings, dto \in RescheduleBookingDtos, u \in {"u1", "u2"} :
        LET allowed == /\ bookings[id].userId = u
                       /\ bookings[id].status \in {"PENDING", "CONFIRMED"}
                       /\ checkAvailability(bookings[id].venueId, dto.newEventDate,
                                            dto.newStartTime, dto.newEndTime)
        IN  ~ENABLED (/\ Reschedule(id, dto, u)
                      /\ ~(IF allowed
                           THEN /\ last'.res = "ok"
                                /\ bookings'[id].status = bookings[id].status
                                /\ bookings'[id].paymentStatus = bookings[id].paymentStatus
                                /\ bookings'[id].advancePaid = bookings[id].advancePaid
                                /\ \A b \in DOMAIN bookings \ {id} :
                                       bookings'[b] = bookings[b]
                           ELSE /\ last'.res \in {"Forbidden", "BadRequest"}
                                /\ bookings' = bookings))

\* the user of a cancelled booking has asked to reschedule it and was refused
CancelledRescheduleRefused ==
    /\ last.op = "reschedule" /\ last.res = "BadRequest"
    /\ last.id \in DOMAIN bookings
    /\ bookings[last.id].status = "CANCELLED"

\* C25: in every reachable state a booking whose paymentStatus is PAID has
\* balanceAmount 0 and advancePaid equal to its totalAmount.
PaidMeansSettled ==
    \A b \in DOMAIN bookings :
        bookings[b].paymentStatus = "PAID" =>
            /\ bookings[b].balanceAmount = 0
            /\ bookings[b].advancePaid = bookings[b].totalAmount

\* C26: a requester who is neither the venue's owner nor an admin cannot change, by
\* updateStatus, the paymentStatus of a booking for which no payment is COMPLETED.
PaymentStatusOnlyByPayment ==
    \A id \in DOMAIN bookings, dto \in UpdateBookingStatusDtos, r \in Requesters :
        (/\ r.role = "USER"
         /\ r.userId # Venues[bookings[id].venueId].ownerId
         /\ \A p \in DOMAIN payments :
               payments[p].bookingId = id => payments[p].status # "COMPLETED")
          => ~ENABLED (/\ UpdateStatus(id, dto, r)
                       /\ bookings'[id].paymentStatus # bookings[id].paymentStatus)

\* C28: every payment that is COMPLETED and is not a refund names a booking that is
\* still stored: a booking with a payment under way cannot be deleted, and no
\* verification completes a payment whose booking is gone.
CompletedPaymentHasBooking ==
    \A p \in DOMAIN payments :
        (payments[p].status = "COMPLETED" /\ payments[p].paymentType # "REFUND")
            => payments[p].bookingId \in DOMAIN bookings

\* C29: payments affect only live bookings: initiatePayment creates no payment for a
\* booking that is CANCELLED or COMPLETED, and a verification that succeeds leaves
\* advancePaid, balanceAmount and paymentStatus of a booking that is CANCELLED at
\* that time as they were.
PaymentsOnlyForLiveBookings ==
    [][/\ (last'.op = "initiatePayment" /\ last'.id # 0)
            => (payments'[last'.id].bookingId \in DOMAIN bookings
                => bookings[payments'[last'.id].bookingId].status
                       \notin {"CANCELLED", "COMPLETED"})
       /\ (last'.op = "verifyPayment" /\ last'.res = "ok")
            => \A b \in DOMAIN bookings :
                  bookings[b].status = "CANCELLED"
                    => /\ bookings'[b].advancePaid = bookings[b].advancePaid
                       /\ bookings'[b].balanceAmount = bookings[b].balanceAmount
                       /\ bookings'[b].paymentStatus = bookings[b].paymentStatus]_vars

\* C30: payment processing never takes a booking's paid state back: once its
\* paymentStatus is PAID, no initiatePayment made from then on yields a payment whose
\* successful verification sets paymentStatus to PARTIAL or lowers advancePaid.
PaidNeverRegresses ==
    \A b \in DOMAIN bookings, dto \in InitiatePaymentDtos :
        (bookings[b].paymentStatus = "PAID" /\ dto.bookingId = b)
          => ~ENABLED (/\ InitiatePayment(dto, bookings[b].userId, TRUE)
                       /\ last'.res = "ok"
                       /\ LET after == bookingPaid(bookings[b], payments'[last'.id])
                          IN  \/ after.paymentStatus = "PARTIAL"
                              \/ after.advancePaid < bookings[b].advancePaid)

====
